---- MODULE Spec2Model ----
(***************************************************************************)
(* Model of the merge / reconcile / deduplicate pipeline of brain.py.      *)
(*                                                                         *)
(* Text (spreadsheet cells, names, file ids) is a sequence of one-letter   *)
(* strings, so that the regex scan, split() and strip() of the code are    *)
(* computed letter by letter.  Table cells that hold a label (species,     *)
(* type, english_name) are one-element sequences holding the label.        *)
(* A GeoPackage file is a record holding its layer name, its coordinate    *)
(* reference, its columns and its rows.                                    *)
(*                                                                         *)
(* Assumptions: the merged file (output_merged), the main dataset          *)
(* (output_gpkg_path) and log.xlsx live outside the input directory, so    *)
(* the globs of the pipeline never pick them up; writing a GeoPackage      *)
(* replaces the file.                                                      *)
(***************************************************************************)
EXTENDS Integers, Sequences, FiniteSets, TLC

\* ------------------------------------------------------------------ bounds
MaxRuns == 2          \* pipeline runs started in one behaviour
MaxDownloads == 2     \* files placed in the input directory in one behaviour
MaxErrorLog == 3      \* entries of error_log.txt after which no diagnosis is started

\* ------------------------------------------------------------------- text
NaN == <<"NaN">>                      \* pandas' missing value in a text cell
NoVal == -1                           \* pandas' missing value in a number cell
NanText == <<"n", "a", "n">>          \* str(float('nan'))
SeriesText == <<"<Series>">>          \* a cell that holds a whole column object

Whitespace == {" "}

\* str(cell)
Str(cell) == IF cell = NaN THEN NanText ELSE cell

RECURSIVE LStrip(_)
LStrip(s) ==
    IF s = <<>> THEN s
    ELSE IF Head(s) \in Whitespace THEN LStrip(Tail(s)) ELSE s

RECURSIVE RStrip(_)
RStrip(s) ==
    IF s = <<>> THEN s
    ELSE IF s[Len(s)] \in Whitespace THEN RStrip(SubSeq(s, 1, Len(s) - 1)) ELSE s

\* str.strip()
Strip(s) == RStrip(LStrip(s))

\* s[i..] starts with pat
StartsAt(s, i, pat) ==
    /\ i + Len(pat) - 1 <= Len(s)
    /\ \A k \in 1..Len(pat) : s[i + k - 1] = pat[k]

\* str.find(pat, i): the first index >= i where pat occurs, 0 when none
RECURSIVE Find(_, _, _)
Find(s, pat, i) ==
    IF i + Len(pat) - 1 > Len(s) THEN 0
    ELSE IF StartsAt(s, i, pat) THEN i
    ELSE Find(s, pat, i + 1)

\* pat in s
Contains(s, pat) == Find(s, pat, 1) # 0

\* s.split(pat)
RECURSIVE Split(_, _)
Split(s, pat) ==
    LET i == Find(s, pat, 1) IN
    IF i = 0 THEN <<s>>
    ELSE <<SubSeq(s, 1, i - 1)>> \o Split(SubSeq(s, i + Len(pat), Len(s)), pat)

\* the end of the longest run of [^\s,] letters that starts at i (i - 1 when empty)
RECURSIVE RunEnd(_, _)
RunEnd(s, i) ==
    IF i > Len(s) \/ s[i] \in Whitespace \cup {","} THEN i - 1
    ELSE RunEnd(s, i + 1)

\* the end of the match of https?://[^\s,]+ that starts at i, 0 when none
MatchUrl(s, i) ==
    LET http == <<"h", "t", "t", "p">>
        sep == <<":", "/", "/">>
        j == IF StartsAt(s, i, http \o <<"s">>) THEN i + 5 ELSE i + 4
    IN  IF StartsAt(s, i, http) /\ StartsAt(s, j, sep) /\ RunEnd(s, j + 3) >= j + 3
        THEN RunEnd(s, j + 3)
        ELSE 0

\* re.findall(r'https?://[^\s,]+', s), scanning from i
RECURSIVE FindAllFrom(_, _)
FindAllFrom(s, i) ==
    IF i > Len(s) THEN <<>>
    ELSE LET e == MatchUrl(s, i) IN
         IF e # 0 THEN <<SubSeq(s, i, e)>> \o FindAllFrom(s, e + 1)
         ELSE FindAllFrom(s, i + 1)

FindAllUrls(s) == FindAllFrom(s, 1)

IdEq == <<"i", "d", "=">>

\* link.split('id=')[1].split('&')[0]
ParseFileId(link) == Split(Split(link, IdEq)[2], <<"&">>)[1]


\* ------------------------------------------------------- spreadsheet rows
\* the file_id -> observer name dictionary after one spreadsheet row:
\* the body of the loop over df.iterrows()
RECURSIVE PutLinks(_, _, _)
PutLinks(map, links, name) ==
    IF links = <<>> THEN map
    ELSE LET link == Head(links)
             next == IF Contains(link, IdEq)
                     THEN LET id == ParseFileId(link) IN
                          [k \in DOMAIN map \cup {id} |->
                              IF k = id THEN name ELSE map[k]]
                     ELSE map
         IN  PutLinks(next, Tail(links), name)

\* one row: name = str(cell).strip(); skipped when pd.isna(links) or pd.isna(name)
\* (name is already text here, so pd.isna(name) is never true)
PutRow(map, row) ==
    LET name == Strip(Str(row.name)) IN
    IF row.links = NaN \/ name = NaN THEN map
    ELSE PutLinks(map, FindAllUrls(Str(row.links)), name)

RECURSIVE BuildFrom(_, _)
BuildFrom(map, rows) ==
    IF rows = <<>> THEN map ELSE BuildFrom(PutRow(map, Head(rows)), Tail(rows))

EmptyMap == [k \in {} |-> <<>>]

\* id_to_name
BuildIdToName(sheet) == BuildFrom(EmptyMap, sheet)

\* ---------------------------------------------------------- species table
\* set_index('species') ... to_dict(orient='index') raises on a repeated species
SpeciesUnique(table) ==
    \A i, j \in 1..Len(table) : table[i].species = table[j].species => i = j

\* species_mapping
SpeciesMapping(table) ==
    [sp \in {table[i].species : i \in 1..Len(table)} |->
        LET i == CHOOSE k \in 1..Len(table) : table[k].species = sp
        IN  [type |-> table[i].type, english_name |-> table[i].english_name]]

\* species_mapping.get(sp, {}).get(field, gdf.get(field)): the table's value,
\* else the whole column object when the file has that column, else None
LookupBroken(mapping, sp, field, cols) ==
    IF field \in cols THEN SeriesText ELSE NaN

Lookup(mapping, sp, field, cols) ==
    IF sp \in DOMAIN mapping THEN mapping[sp][field]
    ELSE IF field \in cols THEN SeriesText
    ELSE NaN

\* ------------------------------------------------------------- geometry
Wgs84 == "EPSG:4326"
Mercator == "EPSG:3857"
NoCrs == "none"

\* the position of a coordinate reference's origin on the common axis
CrsOffset(crs) == IF crs = Mercator THEN 100 ELSE 0

\* the coordinate of the same place in another coordinate reference
Project(g, from, to) == g - CrsOffset(from) + CrsOffset(to)

\* gdf.to_crs(to)
ToCrs(gdf, to) ==
    [gdf EXCEPT !.crs = to,
                !.rows = [i \in 1..Len(gdf.rows) |->
                    [gdf.rows[i] EXCEPT !.geometry = Project(@, gdf.crs, to)]]]

\* if gdf.crs and gdf.crs.to_string() != target_crs: gdf = gdf.to_crs(target_crs)
NormalizeNoReproject(gdf) == gdf

Normalize(gdf) ==
    IF gdf.crs # NoCrs /\ gdf.crs # Wgs84 THEN ToCrs(gdf, Wgs84) ELSE gdf


\* ------------------------------------------------------- GeoPackage files
NoFile == [exists |-> FALSE]

\* gpd.read_file succeeds on the file
Readable(f) == f.exists /\ ~f.corrupt

\* the GeoDataFrame gpd.read_file returns
ReadFile(f) == [crs |-> f.crs, cols |-> f.cols, rows |-> f.rows]

\* gdf.to_file(path, driver="GPKG", layer=layer)
WriteFile(gdf, layer) ==
    [exists |-> TRUE, corrupt |-> FALSE, layer |-> layer,
     crs |-> gdf.crs, cols |-> gdf.cols, rows |-> gdf.rows]

\* a cell holds a column object, which the GeoPackage writer may refuse
HasSeriesCell(gdf) ==
    \E i \in 1..Len(gdf.rows) :
        gdf.rows[i].type = SeriesText \/ gdf.rows[i].english_name = SeriesText

\* ------------------------------------- update_observer_and_species_in_gpkg
\* the frame of one matched file after the observer and the species updates
UpdateFrameKeepObserver(gdf, observer_name, mapping) == gdf

UpdateFrame(gdf, observer_name, mapping) ==
    LET hasObs == "observer" \in gdf.cols
        hasSp == "species" \in gdf.cols
    IN  [crs |-> gdf.crs,
         cols |-> IF hasSp THEN gdf.cols \cup {"type", "english_name"} ELSE gdf.cols,
         rows |-> [i \in 1..Len(gdf.rows) |->
            LET r == gdf.rows[i] IN
            [r EXCEPT
               !.observer = IF hasObs THEN observer_name ELSE @,
               !.type = IF hasSp THEN Lookup(mapping, r.species, "type", gdf.cols)
                        ELSE @,
               !.english_name =
                   IF hasSp THEN Lookup(mapping, r.species, "english_name", gdf.cols)
                   ELSE @]]]

\* the loop over the .gpkg files of the directory, in glob order, from file i;
\* refused is the set of files whose write the GeoPackage writer refuses.
\* Returns the directory and whether the loop raised.
\* continue: the index of the file the loop goes on with after skipping file i
AfterSkipStop(order, i) == Len(order) + 1

AfterSkip(order, i) == i + 1

RECURSIVE UpdateFiles(_, _, _, _, _, _)
UpdateFiles(d, order, i, id_to_name, mapping, refused) ==
    IF i > Len(order) THEN [dir |-> d, raised |-> FALSE]
    ELSE LET file_id == order[i] IN
         IF file_id \notin DOMAIN id_to_name \/ ~Readable(d[file_id])
         THEN UpdateFiles(d, order, AfterSkip(order, i), id_to_name, mapping, refused)
         ELSE LET gdf == UpdateFrame(ReadFile(d[file_id]), id_to_name[file_id], mapping) IN
              IF HasSeriesCell(gdf) /\ file_id \in refused
              THEN [dir |-> d, raised |-> TRUE]
              ELSE UpdateFiles([d EXCEPT ![file_id] = WriteFile(gdf, file_id)],
                               order, i + 1, id_to_name, mapping, refused)

\* --------------------------------------------------------- merge_gpkg_files
\* the list all_gdf after the loop over the files, from file i: a file is
\* added when it can be opened and has a layer named like the file
RECURSIVE ReadAll(_, _, _)
ReadAll(d, order, i) ==
    IF i > Len(order) THEN <<>>
    ELSE LET f == d[order[i]] IN
         IF Readable(f) /\ f.layer = order[i]
         THEN <<Normalize(ReadFile(f))>> \o ReadAll(d, order, i + 1)
         ELSE ReadAll(d, order, i + 1)

RECURSIVE ConcatRows(_)
ConcatRows(frames) ==
    IF frames = <<>> THEN <<>> ELSE Head(frames).rows \o ConcatRows(Tail(frames))

\* pd.concat(all_gdf, ignore_index=True)
ConcatDropLast(frames) ==
    [crs |-> Wgs84, cols |-> {}, rows |-> ConcatRows(SubSeq(frames, 1, Len(frames) - 1))]

Concat(frames) ==
    [crs |-> IF \E i \in 1..Len(frames) : frames[i].crs # NoCrs THEN Wgs84 ELSE NoCrs,
     cols |-> UNION {frames[i].cols : i \in 1..Len(frames)},
     rows |-> ConcatRows(frames)]

\* ---------------------------------------------- remove_duplicates_from_gpkg
Key(r) == <<r.geometry, r.species, r.observer>>

\* the rows whose key occurs in no earlier row (keep='first')
RECURSIVE KeepFirst(_, _)
KeepFirst(rows, seen) ==
    IF rows = <<>> THEN <<>>
    ELSE IF Key(Head(rows)) \in seen THEN KeepFirst(Tail(rows), seen)
    ELSE <<Head(rows)>> \o KeepFirst(Tail(rows), seen \cup {Key(Head(rows))})

\* gdf.drop_duplicates(subset=['geometry', 'species', 'observer'])
DropDuplicatesNone(gdf) == gdf

DropDuplicates(gdf) == [gdf EXCEPT !.rows = KeepFirst(gdf.rows, {})]

\* the subset columns exist (else drop_duplicates raises KeyError)
HasKeyColumns(gdf) == {"species", "observer"} \subseteq gdf.cols

\* os.path.dirname of a path given by its components
Dirname(path) == SubSeq(path, 1, Len(path) - 1)

\* os.makedirs(os.path.dirname(output_dir), exist_ok=True) raises: the path
\* is a bare file name, so the directory to make is ''
MakedirsRaises(path) == path # <<>> /\ Dirname(path) = <<>>

\* remove_duplicates_from_gpkg(input_file, output_dir): what it returns
\* ("raised" when an exception reaches the caller) and the file at output_dir
\* afterwards.  The frame df that combines the input rows with the rows of
\* the existing output is built and not used: the rows written are those of
\* the input alone.  With an empty output path to_file fails inside the try.
RemoveDuplicates(input, output, path) ==
    IF MakedirsRaises(path)
    THEN [result |-> "raised", output |-> output]
    ELSE IF /\ Readable(input)
            /\ output.exists => Readable(output)
            /\ HasKeyColumns(ReadFile(input))
            /\ path # <<>>
    THEN [result |-> "true",
          output |-> WriteFile(DropDuplicates(ReadFile(input)), <<"m", "a", "i", "n">>)]
    ELSE [result |-> "false", output |-> output]


\* --------------------------------------------------------- file names
\* the index of the last dot of a name, 0 when it has none
RECURSIVE LastDot(_, _)
LastDot(name, i) ==
    IF i = 0 THEN 0 ELSE IF name[i] = "." THEN i ELSE LastDot(name, i - 1)

\* os.path.splitext(name): <<root, ext>>; a dot that only dots precede
\* starts no extension
SplitExt(name) ==
    LET d == LastDot(name, Len(name)) IN
    IF d = 0 \/ \A k \in 1..(d - 1) : name[k] = "."
    THEN <<name, <<>>>>
    ELSE <<SubSeq(name, 1, d - 1), SubSeq(name, d, Len(name))>>

\* f"{file_id}{ext}" with ext = os.path.splitext(file_name)[1]
LocalNameKeepName(file_id, file_name) == file_name

LocalName(file_id, file_name) == file_id \o SplitExt(file_name)[2]

\* os.path.splitext(os.path.basename(file_path))[0]
Stem(file_name) == SplitExt(file_name)[1]

\* str.lower() on the letters of the extension
LowerChar(c) ==
    CASE c = "G" -> "g" [] c = "P" -> "p" [] c = "K" -> "k" [] OTHER -> c

Lower(name) == [i \in 1..Len(name) |-> LowerChar(name[i])]

\* str.endswith
EndsWith(name, suffix) ==
    /\ Len(name) >= Len(suffix)
    /\ SubSeq(name, Len(name) - Len(suffix) + 1, Len(name)) = suffix

DotGpkg == <<".", "g", "p", "k", "g">>

\* glob("*.gpkg") on a file system that tells upper from lower case
IsGpkgName(name) == EndsWith(name, DotGpkg)

\* file_name.lower().endswith('.gpkg')
DeletableAnyFile(item) == item.mime # "folder"

Deletable(item) == EndsWith(Lower(item.name), DotGpkg)

\* ------------------------------------------------------------ process_folder
\* what is appended to the local path of a Google-native item that is
\* exported; "skip" for the formats that are not downloaded
ExportSuffix(mime) ==
    CASE mime = "document" -> <<".", "p", "d", "f">>
      [] mime = "spreadsheet" -> <<".", "x", "l", "s", "x">>
      [] mime = "presentation" -> <<".", "p", "d", "f">>
      [] mime = "binary" -> <<>>
      [] OTHER -> <<"skip">>

Supported(mime) == mime \in {"document", "spreadsheet", "presentation", "binary"}

\* results.get('files', []): the items of the first answer of files().list,
\* which holds at most listing.page items; the items behind nextPageToken are
\* not asked for
Listed(listing) ==
    SubSeq(listing.files, 1,
           IF listing.page < Len(listing.files) THEN listing.page
           ELSE Len(listing.files))

\* the local files process_folder writes for the items from i on and, through
\* the recursion, for the subfolders; failing: the items whose download raises
\* (their file has been opened and stays, incomplete)
RECURSIVE ProcessItems(_, _, _, _, _)
ProcessItems(drv, items, i, parent_path, failing) ==
    IF i > Len(items) THEN {}
    ELSE LET item == items[i]
             file_path == Append(parent_path, LocalName(item.id, item.name))
             rest == ProcessItems(drv, items, i + 1, parent_path, failing)
         IN  IF item.mime = "folder"
             THEN ProcessItems(drv, Listed(drv[item.id]), 1, file_path, failing)
                    \cup rest
             ELSE IF ~Supported(item.mime) THEN rest
             ELSE {[path |-> Append(parent_path,
                                    LocalName(item.id, item.name)
                                      \o ExportSuffix(item.mime)),
                    id |-> item.id,
                    complete |-> item.id \notin failing]} \cup rest

\* process_folder(service, folder_id, parent_path)
ProcessFolder(drv, folder_id, parent_path, failing) ==
    ProcessItems(drv, Listed(drv[folder_id]), 1, parent_path, failing)

\* ----------------------------------------------- delete_all_files_in_folder
\* the delete requests issued for the items from i on, in order: a folder is
\* entered by name only, a request that fails with an HttpError is followed
\* by the next item, any other exception leaves the loop
RECURSIVE DeleteRequests(_, _, _)
DeleteRequests(items, i, answer) ==
    IF i > Len(items) THEN <<>>
    ELSE LET item == items[i] IN
         IF item.mime = "folder" THEN DeleteRequests(items, i + 1, answer)
         ELSE IF ~Deletable(item)
         THEN DeleteRequests(items, i + 1, answer)
         ELSE IF answer[item.id] = "other" THEN <<item.id>>
         ELSE <<item.id>> \o DeleteRequests(items, i + 1, answer)

\* ------------------------------------------------------------------ inputs
IdA == <<"A">>
IdB == <<"B">>
FileIds == {IdA, IdB}

Ann == <<"A", "n", "n">>
Bob == <<"B", "o", "b">>
BobPadded == <<" ">> \o Bob \o <<" ">>
Eve == <<"E", "v", "e">>
Tmp == <<"t", "m", "p">>

Robin == <<"robin">>
Newt == <<"newt">>
Wren == <<"wren">>
Bird == <<"bird">>
Amphibian == <<"amphibian">>
OldType == <<"unknown">>
RobinEn == <<"European robin">>
NewtEn == <<"Smooth newt">>

Https == <<"h", "t", "t", "p", "s", ":", "/", "/", "d", "/", "o", "?">>
Http == <<"h", "t", "t", "p", ":", "/", "/", "d", "/", "o", "?">>
LinkA == Https \o IdEq \o IdA
LinkB == Http \o IdEq \o IdB \o <<"&", "u", "=", "s">>
LinkFolder == Https \o <<"f", "=">> \o IdA
LinkUid == Https \o <<"u">> \o IdEq \o <<"1", "&">> \o IdEq \o IdA

\* the answers of the upload form: one row per submission
SheetOne == << [links |-> LinkA, name |-> Ann] >>
SheetTwo == << [links |-> LinkA, name |-> Ann],
               [links |-> LinkA \o <<",", " ">> \o LinkB, name |-> BobPadded] >>
SheetGaps == << [links |-> NaN, name |-> Ann],
                [links |-> LinkB, name |-> NaN],
                [links |-> LinkFolder, name |-> Eve] >>

SheetUid == << [links |-> LinkUid, name |-> Eve] >>

\* the .xlsx files the input directory may hold
XlsxChoices == { <<>>, <<SheetOne>>, <<SheetTwo>>, <<SheetGaps>>, <<SheetOne, SheetTwo>> }

SpeciesTable == << [species |-> Robin, type |-> Bird, english_name |-> RobinEn],
                   [species |-> Newt, type |-> Amphibian, english_name |-> NewtEn] >>
SpeciesTableRepeated == SpeciesTable \o << [species |-> Robin, type |-> Bird,
                                           english_name |-> RobinEn] >>
SpeciesChoices == {SpeciesTable, SpeciesTableRepeated}

Row(fid, g, sp, ob, ty, date, y, m, d) ==
    [fid |-> fid, geometry |-> g, species |-> sp, observer |-> ob, type |-> ty,
     english_name |-> NaN, date |-> date, year |-> y, month |-> m, day |-> d]

Survey == <<"s", "u", "r", "v", "e", "y">>

Upload(layer, crs, cols, rows) ==
    [exists |-> TRUE, corrupt |-> FALSE, layer |-> layer, crs |-> crs,
     cols |-> cols, rows |-> rows]

\* two records of the same place, species and observer
UPlain == Upload(Survey, Wgs84, {"observer", "species", "date"},
                 << Row(1, 1, Robin, Tmp, NaN, 20240503, NoVal, NoVal, NoVal),
                    Row(2, 1, Robin, Tmp, NaN, 20240504, NoVal, NoVal, NoVal) >>)
\* the same place as UPlain's, in another coordinate reference
UMercator == Upload(Survey, Mercator,
                    {"observer", "species", "date", "year", "month", "day"},
                    << Row(3, 101, Robin, Tmp, NaN, 20240503, 2024, 5, 3),
                       Row(4, 102, Newt, Tmp, NaN, 20231130, 2023, 11, 30) >>)
\* no coordinate reference, a species the table does not list, a type column
UNoCrs == Upload(Survey, NoCrs, {"observer", "species", "type"},
                 << Row(5, 101, Wren, Tmp, OldType, NoVal, NoVal, NoVal, NoVal),
                    Row(6, 1, Robin, Tmp, OldType, NoVal, NoVal, NoVal, NoVal) >>)
\* no observer column
UNoObserver == Upload(Survey, Wgs84, {"species"},
                      << Row(7, 2, Newt, NaN, NaN, NoVal, NoVal, NoVal, NoVal) >>)
\* a layer already named like file A
ULayerA == Upload(IdA, Wgs84, {"observer", "species"},
                  << Row(8, 3, Robin, Eve, NaN, NoVal, NoVal, NoVal, NoVal) >>)
\* not a GeoPackage
UCorrupt == [exists |-> TRUE, corrupt |-> TRUE, layer |-> <<>>, crs |-> NoCrs,
             cols |-> {}, rows |-> <<>>]

Uploads == {UPlain, UMercator, UNoCrs, UNoObserver, ULayerA, UCorrupt}

\* a main dataset kept from an earlier season
MainEarlier == Upload(<<"m", "a", "i", "n">>, Wgs84, {"observer", "species"},
                      << Row(9, 7, Newt, Eve, Amphibian, NoVal, NoVal, NoVal, NoVal) >>)
MainChoices == {NoFile, MainEarlier}

\* output_gpkg_path as the user may give it: in a folder, or a bare file name
OutPathChoices == { <<"out", "main.gpkg">>, <<"main.gpkg">> }

Perms(S) == {p \in [1..Cardinality(S) -> S] : \A i, j \in DOMAIN p : p[i] = p[j] => i = j}


\* ------------------------------------------------------------------- state
VARIABLES
    xlsx,         \* the .xlsx files of the input directory (their rows)
    species_csv,  \* the species reference table
    dir,          \* the .gpkg files of the input directory, by file-name stem
    merged,       \* the file at output_merged
    main,         \* the file at output_gpkg_path: the main dataset
    log,          \* log.xlsx
    pc,           \* 0: no run in progress; k: run_pipeline is before its k-th step
    done,         \* the steps the current (or last) run has finished, in order
    all_gdf,      \* merge_gpkg_files' list of the frames it has read
    dedup_ok,     \* what remove_duplicates_from_gpkg returned: "none" before it ran
    stats,        \* run_pipeline's files_processed, total_merged, final_saved
    outcome,      \* how the last run ended
    clock,        \* runs started; the timestamp of the current run
    downloads,    \* files placed in the input directory
    out_path,     \* output_gpkg_path, by its components
    wrapped,      \* run_pipeline is called through safe_run_pipeline
    error_log,    \* the entries of error_log.txt
    propagated,   \* the exception raised to the caller of the run
    drive,        \* the Drive folders: what files().list answers for each
    local,        \* the files under the download directory
    responses,    \* the delete requests of the last deletion and their answers
    last_tool,    \* the Drive operation that ran last
    tool_runs     \* Drive operations run

driveVars == <<drive, local, responses, last_tool, tool_runs>>

vars == <<xlsx, species_csv, dir, merged, main, log, pc, done, all_gdf, dedup_ok,
          stats, outcome, clock, downloads, out_path, wrapped, error_log, propagated,
          drive, local, responses, last_tool, tool_runs>>

\* no Drive operation has run
DriveUnused ==
    /\ drive = [f \in {} |-> <<>>]
    /\ local = {}
    /\ responses = <<>>
    /\ last_tool = "none"
    /\ tool_runs = 0

NoExc == [type |-> "none", message |-> "none", raised_in |-> "none"]

NoStats == [files_processed |-> 0, total_merged |-> 0, final_saved |-> 0]

Init ==
    /\ xlsx \in XlsxChoices
    /\ species_csv \in SpeciesChoices
    /\ dir = [k \in {} |-> NoFile]
    /\ merged = NoFile
    /\ main \in MainChoices
    /\ log = [exists |-> FALSE, rows |-> <<>>]
    /\ pc = 0
    /\ done = <<>>
    /\ all_gdf = <<>>
    /\ dedup_ok = "none"
    /\ stats = NoStats
    /\ outcome = "none"
    /\ clock = 0
    /\ downloads = 0
    /\ out_path = <<"out", "main.gpkg">>
    /\ wrapped = FALSE
    /\ error_log = <<>>
    /\ propagated = NoExc
    /\ DriveUnused

\* the order of the steps in run_pipeline
PipelineOrderSwapped == <<"update", "dedup", "merge", "stats", "log">>

PipelineOrder == <<"update", "merge", "dedup", "stats", "log">>

At(step) == pc > 0 /\ PipelineOrder[pc] = step

\* the step returned: run_pipeline goes on to the next one
Advance(step) ==
    /\ pc' = pc + 1
    /\ done' = Append(done, step)
    /\ UNCHANGED <<outcome, error_log, propagated>>

\* check_species_csv, check_excel_file, check_gpkg_files, check_main_gpkg:
\* what the report says about the files
Diagnosis ==
    [species_rows |-> Len(species_csv), mapping_ok |-> SpeciesUnique(species_csv),
     excel_files |-> Len(xlsx), gpkg_files |-> Cardinality(DOMAIN dir),
     main_exists |-> main.exists]

\* log_error: open(log_file, "a") and write the entry
LogErrorOverwrite(entries, entry) == <<entry>>

LogError(entries, entry) == Append(entries, entry)

\* diagnose_pipeline_error: the report, logged before it is returned
DiagnosePipelineError(entries) ==
    LogError(entries, [report |-> Diagnosis, copy |-> "none", exception |-> NoExc])

\* safe_run_pipeline's except branch: the snapshot copy (which may fail), the
\* diagnosis, then the report with the copy information and the exception
HandleErrorCopyFatal(entries, exc, copy_ok) ==
    IF copy_ok
    THEN LogError(DiagnosePipelineError(entries),
                  [report |-> Diagnosis, copy |-> "copied", exception |-> exc])
    ELSE entries

HandleError(entries, exc, copy_ok) ==
    LogError(DiagnosePipelineError(entries),
             [report |-> Diagnosis,
              copy |-> IF copy_ok THEN "copied" ELSE "failed",
              exception |-> exc])

\* the step raised: run_pipeline ends with the exception; safe_run_pipeline,
\* when the run was started through it, logs it and raises it again
Raise(exc) ==
    /\ pc' = 0
    /\ outcome' = "raised"
    /\ IF wrapped
       THEN \E copy_ok \in BOOLEAN : error_log' = HandleError(error_log, exc, copy_ok)
       ELSE UNCHANGED error_log
    /\ propagated' = exc
    /\ UNCHANGED done

\* the exceptions of the steps: the type, the message and the frame of the
\* traceback that names the function which raised
ValueError == [type |-> "ValueError", message |-> "DataFrame index must be unique",
               raised_in |-> "update_observer_and_species_in_gpkg"]
WriteError == [type |-> "WriteError", message |-> "cannot write the column",
               raised_in |-> "update_observer_and_species_in_gpkg"]
FileNotFoundError == [type |-> "FileNotFoundError",
                      message |-> "No such file or directory: ''",
                      raised_in |-> "remove_duplicates_from_gpkg"]
ReadError == [type |-> "DataSourceError", message |-> "No such file or directory",
              raised_in |-> "run_pipeline"]

\* process_folder stores a file of the Drive folder as <file id><ext>,
\* replacing a file of that name
Download ==
    /\ pc = 0
    /\ downloads < MaxDownloads
    /\ \E file_id \in FileIds, f \in Uploads :
         LET stem == Stem(LocalName(file_id, Survey \o DotGpkg)) IN
         dir' = [k \in DOMAIN dir \cup {stem} |-> IF k = stem THEN f ELSE dir[k]]
    /\ downloads' = downloads + 1
    /\ UNCHANGED <<xlsx, species_csv, merged, main, log, pc, done, all_gdf, dedup_ok,
                   stats, outcome, clock, out_path, wrapped, error_log, propagated>>
    /\ UNCHANGED driveVars

\* if len(excel_files) != 1: return
ExcelCheckAtLeastOne(excel_files) == Len(excel_files) >= 1

ExcelCheck(excel_files) == Len(excel_files) = 1

\* run_pipeline: the check that there is exactly one Excel file, the timestamp
StartRun ==
    /\ pc = 0
    /\ clock < MaxRuns
    /\ clock' = clock + 1
    /\ done' = <<>>
    /\ all_gdf' = <<>>
    /\ dedup_ok' = "none"
    /\ stats' = NoStats
    /\ IF ~ExcelCheck(xlsx)
       THEN pc' = 0 /\ outcome' = "rejected"
       ELSE pc' = 1 /\ outcome' = "running"
    /\ propagated' = NoExc
    /\ UNCHANGED <<xlsx, species_csv, dir, merged, main, log, downloads, out_path,
                   wrapped, error_log>>
    /\ UNCHANGED driveVars

\* Step 1: update_observer_and_species_in_gpkg
UpdateStep ==
    /\ At("update")
    /\ IF ~SpeciesUnique(species_csv)
       THEN Raise(ValueError) /\ UNCHANGED dir
       ELSE \E order \in Perms(DOMAIN dir), refused \in SUBSET (DOMAIN dir) :
              LET r == UpdateFiles(dir, order, 1, BuildIdToName(xlsx[1]),
                                   SpeciesMapping(species_csv), refused)
              IN  /\ dir' = r.dir
                  /\ IF r.raised THEN Raise(WriteError) ELSE Advance("update")
    /\ UNCHANGED <<xlsx, species_csv, merged, main, log, all_gdf, dedup_ok, stats,
                   clock, downloads, out_path, wrapped>>
    /\ UNCHANGED driveVars

\* Step 2: merge_gpkg_files; nothing is written when no frame was read
MergeStep ==
    /\ At("merge")
    /\ \E order \in Perms(DOMAIN dir) :
         LET frames == ReadAll(dir, order, 1) IN
         /\ all_gdf' = frames
         /\ merged' = IF frames = <<>> THEN merged
                      ELSE WriteFile(Concat(frames), <<"f", "i", "n", "a", "l">>)
    /\ Advance("merge")
    /\ UNCHANGED <<xlsx, species_csv, dir, main, log, dedup_ok, stats, clock, downloads,
                   out_path, wrapped>>
    /\ UNCHANGED driveVars

\* Step 3: remove_duplicates_from_gpkg(output_merged, output_gpkg_path)
DedupStep ==
    /\ At("dedup")
    /\ LET r == RemoveDuplicates(merged, main, out_path) IN
       /\ main' = r.output
       /\ IF r.result = "raised"
          THEN Raise(FileNotFoundError) /\ UNCHANGED dedup_ok
          ELSE dedup_ok' = r.result /\ Advance("dedup")
    /\ UNCHANGED <<xlsx, species_csv, dir, merged, log, all_gdf, stats, clock, downloads,
                   out_path, wrapped>>
    /\ UNCHANGED driveVars

\* Step 4: the counts of the summary; reading a missing file raises
StatsStep ==
    /\ At("stats")
    /\ IF Readable(merged) /\ Readable(main)
       THEN /\ stats' = [files_processed |-> Cardinality(DOMAIN dir),
                         total_merged |-> Len(merged.rows),
                         final_saved |-> Len(main.rows)]
            /\ Advance("stats")
       ELSE Raise(ReadError) /\ UNCHANGED stats
    /\ UNCHANGED <<xlsx, species_csv, dir, merged, main, log, all_gdf, dedup_ok,
                   clock, downloads, out_path, wrapped>>
    /\ UNCHANGED driveVars

\* update_excel_log: the new row
NewLog(timestamp, files_processed, total_merged, final_saved, note) ==
    [timestamp |-> timestamp, files_processed |-> files_processed,
     total_gpkg_rows_merged |-> total_merged, final_rows_saved |-> final_saved,
     note |-> note]

\* update_excel_log: the rows written to log.xlsx
UpdatedLogOverwrite(existing, new_log) == <<new_log>>

UpdatedLog(existing, new_log) ==
    IF existing.exists THEN existing.rows \o <<new_log>> ELSE <<new_log>>

\* Step 5: update_excel_log
LogStep ==
    /\ At("log")
    /\ log' = [exists |-> TRUE,
               rows |-> UpdatedLog(log, NewLog(clock, stats.files_processed,
                                   stats.total_merged, stats.final_saved,
                                   "Run completed"))]
    /\ pc' = 0
    /\ done' = Append(done, "log")
    /\ outcome' = "completed"
    /\ UNCHANGED <<xlsx, species_csv, dir, merged, main, all_gdf, dedup_ok, stats,
                   clock, downloads, out_path, wrapped, error_log, propagated>>
    /\ UNCHANGED driveVars

Next ==
    \/ Download
    \/ StartRun
    \/ UpdateStep
    \/ MergeStep
    \/ DedupStep
    \/ StatsStep
    \/ LogStep

Spec == Init /\ [][Next]_vars

\* ------------------------------------------- runs through safe_run_pipeline
\* the input directory as the user may have filled it
DirOf(a, b) == [k \in FileIds |-> IF k = IdA THEN a ELSE b]
DirOnly(a) == [k \in {IdA} |-> a]
DirChoices == { [k \in {} |-> NoFile], DirOnly(UPlain), DirOnly(UNoCrs),
                DirOf(UMercator, UNoObserver), DirOf(UCorrupt, UPlain) }

InitSafe ==
    /\ xlsx \in XlsxChoices
    /\ species_csv \in SpeciesChoices
    /\ dir \in DirChoices
    /\ merged = NoFile
    /\ main \in MainChoices
    /\ log = [exists |-> FALSE, rows |-> <<>>]
    /\ pc = 0
    /\ done = <<>>
    /\ all_gdf = <<>>
    /\ dedup_ok = "none"
    /\ stats = NoStats
    /\ outcome = "none"
    /\ clock = 0
    /\ downloads = MaxDownloads
    /\ out_path \in OutPathChoices
    /\ wrapped = TRUE
    /\ error_log = <<>>
    /\ propagated = NoExc
    /\ DriveUnused

\* diagnose.py: diagnose_pipeline_error on the configured paths
Diagnose ==
    /\ pc = 0
    /\ Len(error_log) < MaxErrorLog
    /\ error_log' = DiagnosePipelineError(error_log)
    /\ UNCHANGED <<xlsx, species_csv, dir, merged, main, log, pc, done, all_gdf,
                   dedup_ok, stats, outcome, clock, downloads, out_path, wrapped,
                   propagated>>
    /\ UNCHANGED driveVars

NextSafe ==
    \/ StartRun
    \/ UpdateStep
    \/ MergeStep
    \/ DedupStep
    \/ StatsStep
    \/ LogStep
    \/ Diagnose

SpecSafe == InitSafe /\ [][NextSafe]_vars


\* ------------------------------------------------- the Drive folder tools
MaxToolRuns == 2

\* the items of the shared Drive folder
Item(id, name, mime) == [id |-> id, name |-> name, mime |-> mime]

Root == <<"R">>
IdS == <<"S">>
GpkgA == Item(IdA, Survey \o DotGpkg, "binary")
GpkgB == Item(IdB, <<"t">> \o DotGpkg, "binary")
GpkgUpper == Item(IdB, <<"t", ".", "G", "P", "K", "G">>, "binary")
Notes == Item(<<"N">>, <<"r", ".", "t", "x", "t">>, "binary")
Doc == Item(<<"D">>, <<"d", "o", "c">>, "document")
Form == Item(<<"F">>, <<"f", "o", "r", "m">>, "form")
SubFolder == Item(IdS, <<"s", "u", "b">>, "folder")
GpkgFolder == Item(IdS, <<"o", "l", "d">> \o DotGpkg, "folder")

Folder(files, page) == [files |-> files, page |-> page]

\* the folder trees: folder id -> its items and the length of the first page
DriveFlat == [f \in {Root} |-> Folder(<<GpkgA, Notes, GpkgUpper>>, 3)]
DriveNested ==
    [f \in {Root, IdS} |->
        IF f = Root THEN Folder(<<SubFolder, GpkgA>>, 3)
        ELSE Folder(<<GpkgB, Doc>>, 3)]
DrivePaged == [f \in {Root} |-> Folder(<<GpkgB, Notes, GpkgA>>, 2)]
DriveMixed ==
    [f \in {Root, IdS} |->
        IF f = Root THEN Folder(<<Form, GpkgFolder, GpkgB, GpkgA>>, 4)
        ELSE Folder(<<>>, 3)]
DriveChoices == {DriveFlat, DriveNested, DrivePaged, DriveMixed}

DriveSheets == { <<SheetOne>>, <<SheetTwo>>, <<SheetGaps>>, <<SheetUid>> }

InitDrive ==
    /\ xlsx \in DriveSheets
    /\ species_csv = SpeciesTable
    /\ dir = [k \in {} |-> NoFile]
    /\ merged = NoFile
    /\ main = NoFile
    /\ log = [exists |-> FALSE, rows |-> <<>>]
    /\ pc = 0
    /\ done = <<>>
    /\ all_gdf = <<>>
    /\ dedup_ok = "none"
    /\ stats = NoStats
    /\ outcome = "none"
    /\ clock = 0
    /\ downloads = MaxDownloads
    /\ out_path = <<"out", "main.gpkg">>
    /\ wrapped = FALSE
    /\ error_log = <<>>
    /\ propagated = NoExc
    /\ drive \in DriveChoices
    /\ local = {}
    /\ responses = <<>>
    /\ last_tool = "none"
    /\ tool_runs = 0

pipelineVars == <<xlsx, species_csv, merged, main, log, pc, done, all_gdf, dedup_ok,
                  stats, outcome, clock, downloads, out_path, wrapped, error_log,
                  propagated>>

\* the items of the whole tree, whatever page they are on
AllItems(drv) == UNION {{drv[f].files[i] : i \in DOMAIN drv[f].files} : f \in DOMAIN drv}

\* the ids of the items that are not folders
FileItemIds(drv) == {x.id : x \in {y \in AllItems(drv) : y.mime # "folder"}}

\* the ids of the items the first answer for the folder holds
ListedIds(drv, folder_id) ==
    {Listed(drv[folder_id])[i].id : i \in DOMAIN Listed(drv[folder_id])}

\* auth(root_folder_id, download_dir): process_folder on the root folder; a
\* file written again replaces the one at its path
AuthDownload ==
    /\ tool_runs < MaxToolRuns
    /\ \E failing \in SUBSET FileItemIds(drive) :
         LET new == ProcessFolder(drive, Root, <<>>, failing) IN
         local' = {e \in local : \A n \in new : n.path # e.path} \cup new
    /\ last_tool' = "auth"
    /\ tool_runs' = tool_runs + 1
    /\ UNCHANGED <<drive, responses, dir>>
    /\ UNCHANGED pipelineVars

\* the files of items without the ids in gone
RECURSIVE Without(_, _)
Without(items, gone) ==
    IF items = <<>> THEN <<>>
    ELSE IF Head(items).id \in gone THEN Without(Tail(items), gone)
    ELSE <<Head(items)>> \o Without(Tail(items), gone)

\* delete_all_files_in_folder(folder_id): the requests in order with the
\* answer each got; the items whose request succeeded leave the folder
DeleteAll ==
    /\ tool_runs < MaxToolRuns
    /\ \E answer \in [ListedIds(drive, Root) -> {"ok", "http", "other"}] :
         LET requested == DeleteRequests(Listed(drive[Root]), 1, answer)
             gone == {requested[i] : i \in {j \in DOMAIN requested :
                                              answer[requested[j]] = "ok"}}
         IN  /\ responses' = [i \in DOMAIN requested |->
                                 [id |-> requested[i], answer |-> answer[requested[i]]]]
             /\ drive' = [drive EXCEPT ![Root] =
                             Folder(Without(drive[Root].files, gone), @.page)]
    /\ last_tool' = "delete"
    /\ tool_runs' = tool_runs + 1
    /\ UNCHANGED <<local, dir>>
    /\ UNCHANGED pipelineVars

\* glob.glob(os.path.join(directory, "*.gpkg")): the files of the directory
\* itself, not those of its subdirectories
GlobGpkg(entries) == {e \in entries : Len(e.path) = 1 /\ IsGpkgName(e.path[1])}

\* the download directory as update_observer_and_species_in_gpkg finds it: a
\* file whose download broke off cannot be opened
Downloaded(entries) ==
    [k \in {Stem(e.path[1]) : e \in GlobGpkg(entries)} |->
        LET e == CHOOSE x \in GlobGpkg(entries) : Stem(x.path[1]) = k IN
        IF e.complete THEN UPlain ELSE UCorrupt]

\* update_observer_and_species_in_gpkg on the download directory
UpdateDownloaded ==
    /\ last_tool = "auth"
    /\ LET d == Downloaded(local) IN
       \E order \in Perms(DOMAIN d) :
           dir' = UpdateFiles(d, order, 1, BuildIdToName(xlsx[1]),
                              SpeciesMapping(species_csv), {}).dir
    /\ last_tool' = "update"
    /\ UNCHANGED <<drive, local, responses, tool_runs>>
    /\ UNCHANGED pipelineVars

NextDrive ==
    \/ AuthDownload
    \/ DeleteAll
    \/ UpdateDownloaded

SpecDrive == InitDrive /\ [][NextDrive]_vars


\* ------------------------------------------------------------- properties
Range(seq) == {seq[i] : i \in DOMAIN seq}

Keys(rows) == {Key(rows[i]) : i \in DOMAIN rows}

\* the deduplication step has just written the main dataset and returned True
DedupWrote == At("dedup") /\ dedup_ok' = "true"

\* a run is past its update step, which returned without raising
AfterUpdate == pc > 0 /\ Len(done) >= 1

\* a run is past its merge step
AfterMerge == pc > 0 /\ Len(done) >= 2

\* the rows of the spreadsheet that hold an 'id=' link to the file named stem
LinkedRows(stem) ==
    LET sheet == xlsx[1] IN
    {i \in DOMAIN sheet :
        /\ sheet[i].links # NaN
        /\ \E link \in Range(FindAllUrls(sheet[i].links)) :
             Contains(link, IdEq) /\ ParseFileId(link) = stem}

\* the files of the directory that merge_gpkg_files can read
ReadByMerge == {k \in DOMAIN dir : Readable(dir[k]) /\ dir[k].layer = k}

\* C1: every record that is in the main dataset before
\* remove_duplicates_from_gpkg runs is still in it after a successful run.
C1_MainOnlyGrows ==
    [][(DedupWrote /\ main.exists) => Range(main.rows) \subseteq Range(main'.rows)]_vars

\* C2: when the main dataset exists, the rows added to it are exactly the
\* incoming merged rows whose (geometry, species, observer) triple does not yet
\* occur in it; an incoming row whose triple already occurs is not added.
C2_AddsExactlyNovelRows ==
    [][(DedupWrote /\ main.exists) =>
         LET added == Range(main'.rows) \ Range(main.rows) IN
         /\ added \subseteq Range(merged.rows)
         /\ \A r \in added : Key(r) \notin Keys(main.rows)
         /\ \A r \in Range(merged.rows) :
              Key(r) \notin Keys(main.rows) => \E a \in added : Key(a) = Key(r)]_vars

Attributes(r) == [r EXCEPT !.geometry = 0]

\* C4: the rows merge_gpkg_files writes are the rows of the files it read, as
\* a multiset: the row count is the sum of the files' row counts and every
\* record occurs as often as in the files.
C4_MergeIsConcatenation ==
    (AfterMerge /\ ReadByMerge # {}) =>
        LET cells == UNION {{<<k, i>> : i \in DOMAIN dir[k].rows} : k \in ReadByMerge} IN
        /\ Readable(merged)
        /\ Len(merged.rows) = Cardinality(cells)
        /\ \A c \in cells :
             LET x == Attributes(dir[c[1]].rows[c[2]]) IN
             Cardinality({i \in DOMAIN merged.rows : Attributes(merged.rows[i]) = x})
               = Cardinality({d \in cells : Attributes(dir[d[1]].rows[d[2]]) = x})

C4_Witness ==
    /\ AfterMerge
    /\ Cardinality(ReadByMerge) = 2
    /\ Len(merged.rows) = 4

\* C5: after update_observer_and_species_in_gpkg, in every file whose stem is
\* the file id of an 'id=' link of some spreadsheet row and which has an
\* observer column, every record's observer is the name given in that row.
C5_ObserverOfAnyLinkedRow ==
    AfterUpdate =>
        \A k \in DOMAIN dir : \A i \in LinkedRows(k) :
            "observer" \in dir[k].cols =>
                \A n \in DOMAIN dir[k].rows : dir[k].rows[n].observer = xlsx[1][i].name

\* C5 as amended: the observer is the text of the name cell, stripped of
\* surrounding whitespace, of the last spreadsheet row that links to the file.
C5_ObserverOfLastLinkedRow ==
    AfterUpdate =>
        \A k \in DOMAIN dir :
            (LinkedRows(k) # {} /\ "observer" \in dir[k].cols) =>
                LET last == CHOOSE i \in LinkedRows(k) : \A j \in LinkedRows(k) : j <= i
                IN  \A n \in DOMAIN dir[k].rows :
                       dir[k].rows[n].observer = Strip(Str(xlsx[1][last].name))

C5_Witness ==
    /\ AfterUpdate
    /\ xlsx = <<SheetTwo>>
    /\ \E k \in DOMAIN dir :
         /\ Cardinality(LinkedRows(k)) = 2
         /\ "observer" \in dir[k].cols
         /\ Len(dir[k].rows) = 2
         /\ dir[k].rows[1].observer = Bob

\* C6: after update_observer_and_species_in_gpkg, in every matched file with a
\* species column, a record whose species is in the reference table has the
\* type and the english_name the table gives for that species.
C6_SpeciesFields ==
    AfterUpdate =>
        \A k \in DOMAIN dir :
            (LinkedRows(k) # {} /\ "species" \in dir[k].cols) =>
                \A n \in DOMAIN dir[k].rows : \A t \in DOMAIN species_csv :
                    species_csv[t].species = dir[k].rows[n].species =>
                        /\ dir[k].rows[n].type = species_csv[t].type
                        /\ dir[k].rows[n].english_name = species_csv[t].english_name

C6_Witness ==
    /\ AfterUpdate
    /\ \E k \in DOMAIN dir :
         /\ LinkedRows(k) # {}
         /\ \E n \in DOMAIN dir[k].rows :
              /\ dir[k].rows[n].species = Newt
              /\ dir[k].rows[n].type = Amphibian
              /\ dir[k].rows[n].english_name = NewtEn


\* C7: the run log is append-only: the logging step of a run adds exactly one
\* summary row after the rows log.xlsx already holds, creating the file when
\* it is missing, and nothing else changes the log.
C7_LogAppendOnly ==
    [][/\ ~At("log") => log' = log
       /\ At("log") =>
            /\ log'.exists
            /\ Len(log'.rows) = Len(log.rows) + 1
            /\ SubSeq(log'.rows, 1, Len(log.rows)) = log.rows
            /\ log'.rows[Len(log'.rows)] =
                 [timestamp |-> clock, files_processed |-> Cardinality(DOMAIN dir),
                  total_gpkg_rows_merged |-> Len(merged.rows),
                  final_rows_saved |-> Len(main.rows), note |-> "Run completed"]]_vars

C7_Witness ==
    /\ Len(log.rows) = 2
    /\ log.rows[1].timestamp = 1
    /\ log.rows[2].timestamp = 2
    /\ log.rows[2].total_gpkg_rows_merged > log.rows[2].final_rows_saved

\* C8: within one run the steps happen in the order update, merge,
\* deduplicate, log: the per-file datasets are rewritten only before anything
\* else is done, the merged file is written only once the update is done, the
\* main dataset only once the merge is done and the log only after that.
C8_StepOrder ==
    [][/\ \E n \in 0..5 : done' = SubSeq(<<"update", "merge", "dedup", "stats", "log">>, 1, n)
       /\ (pc > 0 /\ dir' # dir) => done = <<>>
       /\ merged' # merged => done = <<"update">>
       /\ main' # main => done = <<"update", "merge">>
       /\ log' # log => done = <<"update", "merge", "dedup", "stats">>]_vars

C8_Witness ==
    /\ done = <<"update", "merge", "dedup", "stats", "log">>
    /\ outcome = "completed"
    /\ clock = 2

\* C9: every per-file dataset that merge_gpkg_files concatenates is in
\* EPSG:4326.
C9_AllFramesWgs84 ==
    AfterMerge => \A i \in DOMAIN all_gdf : all_gdf[i].crs = Wgs84

\* C9 as amended: a dataset read with a coordinate reference is in EPSG:4326
\* when it is added to the merge, reprojected when it was read in another
\* one; a dataset read without a coordinate reference is added as it is.
C9_FramesWgs84OrWithoutCrs ==
    AfterMerge =>
        /\ Len(all_gdf) = Cardinality(ReadByMerge)
        /\ \A k \in ReadByMerge : \E i \in DOMAIN all_gdf :
             /\ all_gdf[i].crs = IF dir[k].crs = NoCrs THEN NoCrs ELSE Wgs84
             /\ Len(all_gdf[i].rows) = Len(dir[k].rows)
             /\ \A n \in DOMAIN dir[k].rows :
                  /\ Attributes(all_gdf[i].rows[n]) = Attributes(dir[k].rows[n])
                  /\ all_gdf[i].rows[n].geometry =
                       IF dir[k].crs = NoCrs THEN dir[k].rows[n].geometry
                       ELSE Project(dir[k].rows[n].geometry, dir[k].crs, Wgs84)

C9_Witness ==
    /\ AfterMerge
    /\ \E k \in ReadByMerge : dir[k].crs = Mercator /\ dir[k].rows[1].geometry = 101
    /\ \E i \in DOMAIN all_gdf : all_gdf[i].crs = Wgs84 /\ all_gdf[i].rows[1].geometry = 1
    /\ \E i \in DOMAIN all_gdf : all_gdf[i].crs = NoCrs

\* C10: every record that enters the merged dataset carries year, month and
\* day values equal to the components of its date.
C10_DateComponents ==
    (AfterMerge /\ ReadByMerge # {}) =>
        \A i \in DOMAIN merged.rows :
            LET r == merged.rows[i] IN
            r.date # NoVal =>
                /\ r.year = r.date \div 10000
                /\ r.month = (r.date \div 100) % 100
                /\ r.day = r.date % 100


\* C11: when the input directory does not hold exactly one .xlsx file,
\* run_pipeline executes no step: no per-file .gpkg is modified, neither the
\* merged output nor the main dataset is written and the log gets no row.
C11_NoStepWithoutOneExcel ==
    Len(xlsx) # 1 =>
        /\ pc = 0
        /\ done = <<>>
        /\ \A k \in DOMAIN dir : dir[k] \in Uploads
        /\ merged = NoFile
        /\ main \in MainChoices
        /\ ~log.exists

C11_Witness ==
    /\ outcome = "rejected"
    /\ clock = 2
    /\ Len(xlsx) = 2
    /\ DOMAIN dir = FileIds

\* C12: remove_duplicates_from_gpkg returns True when it wrote the
\* deduplicated dataset and False otherwise; no failure reaches the caller as
\* an exception.
C12_DedupNeverRaises ==
    [][At("dedup") =>
         /\ outcome' # "raised"
         /\ dedup_ok' \in {"true", "false"}
         /\ dedup_ok' = "false" => main' = main]_vars

\* C16: when run_pipeline raises, safe_run_pipeline appends to error_log.txt
\* a report with the exception's type, message and traceback, keeps the
\* earlier entries, and raises the same exception to its caller, also when
\* the snapshot copy failed.
C16_ErrorLoggedAndReraised ==
    [][(wrapped /\ pc > 0 /\ outcome' = "raised") =>
         LET n == Len(error_log') IN
         /\ n > Len(error_log)
         /\ SubSeq(error_log', 1, Len(error_log)) = error_log
         /\ error_log'[n].exception \in {ValueError, WriteError, FileNotFoundError, ReadError}
         /\ propagated' = error_log'[n].exception
         /\ error_log'[n].exception.raised_in # "none"
         /\ error_log'[n].report = Diagnosis]_vars

C16_Witness ==
    /\ wrapped
    /\ outcome = "raised"
    /\ Len(error_log) = 4
    /\ error_log[4].copy = "failed"
    /\ error_log[4].exception = ValueError
    /\ error_log[2].copy = "copied"
    /\ propagated = ValueError

\* C17: a diagnosis does not run the pipeline and leaves the species table,
\* the spreadsheet, every per-file .gpkg, the main dataset and log.xlsx as
\* they are: it appends one entry to error_log.txt and keeps the earlier ones.
C17_DiagnoseOnlyAppends ==
    [][(pc = 0 /\ error_log' # error_log) =>
         /\ UNCHANGED <<species_csv, xlsx, dir, merged, main, log>>
         /\ pc' = 0 /\ clock' = clock /\ done' = done
         /\ Len(error_log') = Len(error_log) + 1
         /\ SubSeq(error_log', 1, Len(error_log)) = error_log
         /\ error_log'[Len(error_log')] =
              [report |-> Diagnosis, copy |-> "none", exception |-> NoExc]]_vars

C17_Witness ==
    /\ Len(error_log) = 3
    /\ error_log[2].exception = ReadError
    /\ error_log[3].exception = NoExc
    /\ error_log[3].report.main_exists
    /\ pc = 0

\* C18: update_observer_and_species_in_gpkg leaves every .gpkg file whose
\* stem has no entry in the file-id -> observer mapping as it is, and goes on
\* with the other files: when it returns, every readable matched file has
\* been rewritten.
C18_UnmatchedFilesUntouched ==
    [][At("update") =>
         /\ \A k \in DOMAIN dir : LinkedRows(k) = {} => dir'[k] = dir[k]
         /\ outcome' # "raised" =>
              \A k \in DOMAIN dir :
                  (LinkedRows(k) # {} /\ Readable(dir[k])) => dir'[k].layer = k]_vars

C18_Witness ==
    /\ AfterUpdate
    /\ \E k \in DOMAIN dir : LinkedRows(k) = {} /\ dir[k] = UPlain
    /\ \E k \in DOMAIN dir : LinkedRows(k) # {} /\ dir[k].layer = k
                             /\ dir[k].rows[1].observer = Ann

\* C19: a spreadsheet row whose links cell or name cell is empty adds no
\* entry to the file-id -> observer mapping: the observer a file receives is
\* the name of the last row that links to it and has a name, and a file that
\* only nameless rows link to keeps its observers.
C19_NoObserverFromMissingName ==
    [][(At("update") /\ outcome' # "raised") =>
         \A k \in DOMAIN dir :
             (Readable(dir[k]) /\ "observer" \in dir[k].cols) =>
                 LET named == {i \in LinkedRows(k) : xlsx[1][i].name # NaN} IN
                 \A n \in DOMAIN dir[k].rows :
                     dir'[k].rows[n].observer =
                         IF named = {} THEN dir[k].rows[n].observer
                         ELSE Strip(xlsx[1][CHOOSE i \in named :
                                               \A j \in named : j <= i].name)]_vars

\* ---------------------------------------------- properties of the Drive tools
\* delete_all_files_in_folder has just run
DeleteRan == tool_runs' = tool_runs + 1 /\ last_tool' = "delete"

\* the name ends with .gpkg, in whatever case
NamedGpkg(name) ==
    LET n == Len(name) IN
    /\ n >= 5
    /\ name[n - 4] = "."
    /\ name[n - 3] \in {"g", "G"}
    /\ name[n - 2] \in {"p", "P"}
    /\ name[n - 1] \in {"k", "K"}
    /\ name[n] \in {"g", "G"}

GpkgFile(x) == x.mime # "folder" /\ NamedGpkg(x.name)

\* the delete requests go to .gpkg files only, and nothing else leaves the tree
OnlyGpkgFilesDeleted ==
    /\ \A i \in DOMAIN responses' :
         \E x \in AllItems(drive) : x.id = responses'[i].id /\ GpkgFile(x)
    /\ DOMAIN drive' = DOMAIN drive
    /\ \A x \in AllItems(drive) \ AllItems(drive') :
         /\ GpkgFile(x)
         /\ \E i \in DOMAIN responses' :
              responses'[i].id = x.id /\ responses'[i].answer = "ok"
    /\ \A x \in AllItems(drive) : ~GpkgFile(x) => x \in AllItems(drive')

\* the .gpkg files the loop of delete_all_files_in_folder goes over
LoopGpkgFiles == {x \in Range(Listed(drive[Root])) : GpkgFile(x)}

\* C13 as stated: delete requests go only to non-folder items whose name ends
\* with .gpkg in any case, nothing else is deleted, and a deletion that failed,
\* however it failed, does not keep the remaining items from being processed.
C13_AnyFailureContinues ==
    [][DeleteRan =>
         /\ OnlyGpkgFilesDeleted
         /\ \A x \in LoopGpkgFiles : \E i \in DOMAIN responses' : responses'[i].id = x.id]_vars

\* C13, amended: delete requests go only to non-folder items whose name ends
\* with .gpkg in any case and nothing else is deleted; a deletion that failed
\* with an HttpError does not keep the remaining items from being processed,
\* while a request that raised any other exception is the last one issued.
C13_HttpErrorContinues ==
    [][DeleteRan =>
         /\ OnlyGpkgFilesDeleted
         /\ \A x \in LoopGpkgFiles :
              \/ \E i \in DOMAIN responses' : responses'[i].id = x.id
              \/ \E i \in DOMAIN responses' : responses'[i].answer = "other"
         /\ \A i \in DOMAIN responses' :
              responses'[i].answer = "other" => i = Len(responses')]_vars

C13_Witness ==
    /\ last_tool = "delete"
    /\ Len(responses) = 2
    /\ responses[1].answer = "http"
    /\ responses[2].answer = "ok"
    /\ GpkgFolder \in AllItems(drive)
    /\ Form \in AllItems(drive)
    /\ GpkgB \in AllItems(drive)
    /\ GpkgA \notin AllItems(drive)

\* every folder of the tree is listed in one page
OnePageEach(drv) == \A f \in DOMAIN drv : Len(drv[f].files) <= drv[f].page

\* C14: after delete_all_files_in_folder returned without an error, the .gpkg
\* files of the subfolders at any depth are deleted as well as those directly
\* in the folder.
C14_SubfolderGpkgDeleted ==
    [][(/\ DeleteRan
        /\ OnePageEach(drive)
        /\ \A i \in DOMAIN responses' : responses'[i].answer = "ok")
          => \A x \in AllItems(drive') : ~GpkgFile(x)]_vars

\* the files of the tree below folder_id with the chain of folders above them
RECURSIVE TreeFiles(_, _, _, _)
TreeFiles(drv, folder_id, chain, depth) ==
    LET items == {drv[folder_id].files[i] : i \in DOMAIN drv[folder_id].files} IN
    {[item |-> x, chain |-> chain] : x \in {y \in items : y.mime # "folder"}}
      \cup (IF depth = 0 THEN {}
            ELSE UNION {TreeFiles(drv, x.id, Append(chain, x.id), depth - 1) :
                           x \in {y \in items : y.mime = "folder"}})

\* the local path lies in the subdirectories that stand for the folder chain
Mirrors(path, chain) ==
    /\ Len(path) = Len(chain) + 1
    /\ \A k \in DOMAIN chain : SubSeq(path[k], 1, Len(chain[k])) = chain[k]

\* C15: after auth/process_folder returned, every non-folder item of the folder
\* tree, however many items a folder holds, that is not of an unsupported
\* Google format and whose download did not fail has a local file in the
\* sub-path that mirrors its Drive folder.
C15_AllFilesDownloaded ==
    last_tool = "auth" =>
        \A t \in TreeFiles(drive, Root, <<>>, Cardinality(DOMAIN drive)) :
            t.item.mime \in {"binary", "document", "spreadsheet", "presentation"} =>
                \E e \in local : e.id = t.item.id /\ Mirrors(e.path, t.chain)

\* the link has the form ...id=<file id>, optionally followed by &...
LinksTo(link, id) ==
    \/ EndsWith(link, IdEq \o id)
    \/ Contains(link, IdEq \o id \o <<"&">>)

\* the file name of a local path
Basename(path) == path[Len(path)]

====
